---- MODULE Spec2Model ----
(***************************************************************************)
(* Model of the flywheel authority (src/http.go): the Flywheel struct, the *)
(* Spin loop with its three event sources (pings, ticker, health channel), *)
(* RecvPing, Poll, the Start/Stop lifecycle sequences, SendPing callers    *)
(* and the status file written at exit and read at startup.                *)
(*                                                                         *)
(* Time is an integer clock `now`; 0 is Go's zero time.Time.  A handler    *)
(* reads the clock when it begins (t0) and, after a lifecycle sequence has *)
(* made its API calls, possibly later (t1 >= t0).                          *)
(***************************************************************************)
EXTENDS Integers, Sequences, FiniteSets, TLC

\* ------------------------------------------------------------------ bounds

\* The clock stops advancing at MaxTime.
MaxTime == 3

\* The longest query string (in key=value pairs) of a request.
MaxQuery == 2

\* ------------------------------------------------- configuration (Config)

\* fw.idleTimeout, a positive duration taken from the configuration.
idleTimeout == 1

\* The configuration the authority runs with: raw instance ids, the
\* Terminate map (group name -> restore size) and the Stop list.
BaseConfig ==
  [Instances |-> <<"i-1">>,
   Terminate |-> [g \in {"t1"} |-> "2"],
   Stop |-> <<"s1">>]

\* Configurations the lifecycle sequences are run with on their own: with
\* and without raw instances, up to two Terminate groups and two Stop groups.
Configs ==
  {[Instances |-> i, Terminate |-> [g \in t |-> IF g = "t1" THEN "2" ELSE "5"], Stop |-> st] :
     i \in {<<>>, <<"i-1">>},
     t \in {{}, {"t1"}, {"t1", "t2"}},
     st \in {<<>>, <<"s1">>, <<"s1", "s2">>}}

\* Time a lifecycle sequence may take (clock units).
CallDurations == {0, 1}

\* Durations a caller may put in Ping.setTimeout (0 means: none supplied).
SetTimeouts == {-1, 0, 2}

\* Goroutines that call SendPing concurrently.
Callers == {"c1", "c2"}

\* A front end that builds its Ping itself (status and admin requests).
FrontEnd == "c1"

\* ------------------------------------------------------------ status enum

STOPPED == 0
STARTING == 1
STARTED == 2
STOPPING == 3
UNHEALTHY == 4

States == {STOPPED, STARTING, STARTED, STOPPING, UNHEALTHY}

StatusString(s) ==
  CASE s = STOPPED -> "stopped"
    [] s = STARTING -> "starting"
    [] s = STARTED -> "started"
    [] s = STOPPING -> "stopping"
    [] s = UNHEALTHY -> "unhealthy"
    [] OTHER -> "unknown"

\* A nil error.
Nil == "nil"

\* Go's zero time.Time.
ZeroTime == 0

\* ------------------------------------------------------------------ state

VARIABLES
  fw,          \* the Flywheel struct: config, status, ready, stopAt, lastStarted, lastStopped
  now,         \* the wall clock
  hchan,       \* the health channel of Spin (capacity 1)
  pc,          \* per caller: "idle", "sending" (blocked on fw.pings), "waiting" (blocked on replyTo)
  pings,       \* the channel fw.pings: per caller, the Ping it offers (unbuffered)
  replyTo,     \* per caller: its reply channel [buf, closed, sent]
  statusFile,  \* the status file's content
  phase,       \* "running", "calling" (the loop is inside a lifecycle sequence) or "exited"
  last,        \* the event processed in the last step
  http         \* the HTTP request ServeHTTP is given and the response it writes

vars == <<fw, now, hchan, pc, pings, replyTo, statusFile, phase, last, http>>

\* --------------------------------------------------------------- helpers

\* F applied to the value of v: a local variable of the code, assigned once
\* and read where F names it.
With(v, F(_)) == CHOOSE y \in {F(x) : x \in {v}} : TRUE

\* ------------------------------------------------- lifecycle orchestrator

\* A run of a lifecycle sequence: the API calls made so far and the error.
\* failAt is the number of the API call of this run that returns an error
\* (0, or a number beyond the last call: none fails).
NoCalls == [calls |-> <<>>, err |-> Nil]

\* The error a failing API call returns.
CallError(call) == "error: " \o call[1] \o " " \o call[2]

Api(r, op, target, failAt) ==
  [calls |-> Append(r.calls, <<op, target>>),
   err |-> IF Len(r.calls) + 1 = failAt THEN CallError(<<op, target>>) ELSE Nil]

startInstances(f, r, failAt) ==
  IF Len(f.config.Instances) = 0 THEN r
  ELSE Api(r, "StartInstances", "instances", failAt)

RECURSIVE unterminateAutoScaling(_, _, _, _)
unterminateAutoScaling(f, r, order, failAt) ==
  IF order = <<>> THEN r
  ELSE LET size == f.config.Terminate[Head(order)]
       IN With(Api(r, "UpdateAutoScalingGroup:" \o size, Head(order), failAt),
               LAMBDA r1 : IF r1.err # Nil THEN r1
                           ELSE unterminateAutoScaling(f, r1, Tail(order), failAt))

RECURSIVE startAutoScaling(_, _, _)
startAutoScaling(r, groups, failAt) ==
  IF groups = <<>> THEN r
  ELSE With(Api(r, "DescribeAutoScalingGroups", Head(groups), failAt),
         LAMBDA r1 : IF r1.err # Nil THEN r1
           ELSE With(Api(r1, "StartInstances", Head(groups), failAt),
                  LAMBDA r2 : IF r2.err # Nil THEN r2
                              ELSE startAutoScaling(r2, Tail(groups), failAt)))

stopInstances(f, r, failAt) ==
  IF Len(f.config.Instances) = 0 THEN r
  ELSE Api(r, "StopInstances", "instances", failAt)

RECURSIVE terminateAutoScaling(_, _, _)
terminateAutoScaling(r, order, failAt) ==
  IF order = <<>> THEN r
  ELSE With(Api(r, "UpdateAutoScalingGroup:0", Head(order), failAt),
         LAMBDA r1 : IF r1.err # Nil THEN r1
                     ELSE terminateAutoScaling(r1, Tail(order), failAt))

RECURSIVE stopAutoScaling(_, _, _)
\* stopAutoScaling that stops a group's members although suspending its
\* ReplaceUnhealthy process failed.
stopAutoScaling_IgnoreSuspendError(r, groups, failAt) ==
  IF groups = <<>> THEN r
  ELSE With(Api(r, "DescribeAutoScalingGroups", Head(groups), failAt),
         LAMBDA r1 : IF r1.err # Nil THEN r1
           ELSE With(Api(r1, "SuspendProcesses:ReplaceUnhealthy", Head(groups), failAt),
                  LAMBDA r2 :
                    With(Api(r2, "StopInstances", Head(groups), failAt),
                         LAMBDA r3 : IF r3.err # Nil THEN r3
                                     ELSE stopAutoScaling(r3, Tail(groups), failAt))))

stopAutoScaling(r, groups, failAt) ==
  IF groups = <<>> THEN r
  ELSE With(Api(r, "DescribeAutoScalingGroups", Head(groups), failAt),
         LAMBDA r1 : IF r1.err # Nil THEN r1
           ELSE With(Api(r1, "SuspendProcesses:ReplaceUnhealthy", Head(groups), failAt),
                  LAMBDA r2 : IF r2.err # Nil THEN r2
                    ELSE With(Api(r2, "StopInstances", Head(groups), failAt),
                           LAMBDA r3 : IF r3.err # Nil THEN r3
                                       ELSE stopAutoScaling(r3, Tail(groups), failAt))))

\* The orders in which a Go range over a map may visit the keys in S.
RangeOrders(S) ==
  {o \in [1..Cardinality(S) -> S] : \A i, j \in DOMAIN o : i # j => o[i] # o[j]}

\* What decides a lifecycle run of n API calls: the clock after its calls,
\* the order of the range over the Terminate map, and the call that fails
\* (0: none).
Runs(f, t0, n) ==
  [t1 : {t0 + d : d \in CallDurations} \cap (0..MaxTime),
   order : RangeOrders(DOMAIN f.config.Terminate),
   failAt : 0..n]

\* A lifecycle run in which no call fails and no time passes.
NoRun(f, t0) ==
  [t1 |-> t0,
   order |-> CHOOSE o \in RangeOrders(DOMAIN f.config.Terminate) : TRUE,
   failAt |-> 0]

\* A handler branch that invokes no lifecycle sequence.
Quiet(f) == [fw |-> f, err |-> Nil, calls |-> <<>>, starts |-> 0, stops |-> 0]

\* Start with the error check after the state change.
Start_IgnoreError(f, t0, run) ==
  LET f1 == [f EXCEPT !.lastStarted = t0]
      r1 == startInstances(f, NoCalls, run.failAt)
      r2 == IF r1.err = Nil THEN unterminateAutoScaling(f, r1, run.order, run.failAt) ELSE r1
      r3 == IF r2.err = Nil THEN startAutoScaling(r2, f.config.Stop, run.failAt) ELSE r2
  IN [fw |-> [f1 EXCEPT !.ready = FALSE,
                        !.stopAt = run.t1 + idleTimeout,
                        !.status = STARTING],
      err |-> r3.err, calls |-> r3.calls, starts |-> 1, stops |-> 0]

\* Start that records the time of a start that succeeded only.
Start_StampOnSuccess(f, t0, run) ==
  With(startInstances(f, NoCalls, run.failAt), LAMBDA r1 :
  With(IF r1.err = Nil THEN unterminateAutoScaling(f, r1, run.order, run.failAt) ELSE r1,
       LAMBDA r2 :
  With(IF r2.err = Nil THEN startAutoScaling(r2, f.config.Stop, run.failAt) ELSE r2,
       LAMBDA r3 :
    IF r3.err # Nil
    THEN [fw |-> f, err |-> r3.err, calls |-> r3.calls, starts |-> 1, stops |-> 0]
    ELSE [fw |-> [f EXCEPT !.lastStarted = t0,
                           !.ready = FALSE,
                           !.stopAt = run.t1 + idleTimeout,
                           !.status = STARTING],
          err |-> Nil, calls |-> r3.calls, starts |-> 1, stops |-> 0])))

\* Start: the result is the struct after it, the error, the calls made and
\* how many start and stop sequences were invoked.
Start(f, t0, run) ==
  LET f1 == [f EXCEPT !.lastStarted = t0]
  IN With(startInstances(f, NoCalls, run.failAt), LAMBDA r1 :
     With(IF r1.err = Nil THEN unterminateAutoScaling(f, r1, run.order, run.failAt) ELSE r1,
          LAMBDA r2 :
     With(IF r2.err = Nil THEN startAutoScaling(r2, f.config.Stop, run.failAt) ELSE r2,
          LAMBDA r3 :
       IF r3.err # Nil
       THEN [fw |-> f1, err |-> r3.err, calls |-> r3.calls, starts |-> 1, stops |-> 0]
       ELSE [fw |-> [f1 EXCEPT !.ready = FALSE,
                               !.stopAt = run.t1 + idleTimeout,
                               !.status = STARTING],
             err |-> Nil, calls |-> r3.calls, starts |-> 1, stops |-> 0])))

\* Stop with the deadline set before the calls are made.
Stop_DeadlineFirst(f, t0, run) ==
  LET f1 == [f EXCEPT !.lastStopped = t0, !.stopAt = t0]
      r1 == stopInstances(f, NoCalls, run.failAt)
      r2 == IF r1.err = Nil THEN terminateAutoScaling(r1, run.order, run.failAt) ELSE r1
      r3 == IF r2.err = Nil THEN stopAutoScaling(r2, f.config.Stop, run.failAt) ELSE r2
  IN IF r3.err # Nil
     THEN [fw |-> f1, err |-> r3.err, calls |-> r3.calls, starts |-> 0, stops |-> 1]
     ELSE [fw |-> [f1 EXCEPT !.ready = FALSE, !.status = STOPPING],
           err |-> Nil, calls |-> r3.calls, starts |-> 0, stops |-> 1]

\* Stop that reports the resources stopped as soon as its calls returned.
Stop_SkipStopping(f, t0, run) ==
  LET f1 == [f EXCEPT !.lastStopped = t0]
  IN With(stopInstances(f, NoCalls, run.failAt), LAMBDA r1 :
     With(IF r1.err = Nil THEN terminateAutoScaling(r1, run.order, run.failAt) ELSE r1,
          LAMBDA r2 :
     With(IF r2.err = Nil THEN stopAutoScaling(r2, f.config.Stop, run.failAt) ELSE r2,
          LAMBDA r3 :
       IF r3.err # Nil
       THEN [fw |-> f1, err |-> r3.err, calls |-> r3.calls, starts |-> 0, stops |-> 1]
       ELSE [fw |-> [f1 EXCEPT !.ready = FALSE,
                               !.status = STOPPED,
                               !.stopAt = f1.lastStopped],
             err |-> Nil, calls |-> r3.calls, starts |-> 0, stops |-> 1])))

Stop(f, t0, run) ==
  LET f1 == [f EXCEPT !.lastStopped = t0]
  IN With(stopInstances(f, NoCalls, run.failAt), LAMBDA r1 :
     With(IF r1.err = Nil THEN terminateAutoScaling(r1, run.order, run.failAt) ELSE r1,
          LAMBDA r2 :
     With(IF r2.err = Nil THEN stopAutoScaling(r2, f.config.Stop, run.failAt) ELSE r2,
          LAMBDA r3 :
       IF r3.err # Nil
       THEN [fw |-> f1, err |-> r3.err, calls |-> r3.calls, starts |-> 0, stops |-> 1]
       ELSE [fw |-> [f1 EXCEPT !.ready = FALSE,
                               !.status = STOPPING,
                               !.stopAt = f1.lastStopped],
             err |-> Nil, calls |-> r3.calls, starts |-> 0, stops |-> 1])))

\* ------------------------------------------------------------- ping / pong

NoPing == [replyTo |-> "none", setTimeout |-> 0, requestStart |-> FALSE,
           requestStop |-> FALSE, noop |-> FALSE]

Pings(c) == [replyTo : {c}, setTimeout : SetTimeouts, requestStart : BOOLEAN,
             requestStop : BOOLEAN, noop : BOOLEAN]

\* make(chan Pong, 1); sent counts the values ever sent on it.
NewChan == [buf |-> <<>>, closed |-> FALSE, sent |-> 0]

MakePong(f, err) ==
  [Status |-> f.status, StatusName |-> StatusString(f.status), Err |-> err,
   LastStarted |-> f.lastStarted, LastStopped |-> f.lastStopped, StopAt |-> f.stopAt]

\* A refresh that forgets the idle timeout.
RefreshTimer_NoIdle(f, t0) == [f EXCEPT !.stopAt = t0]

\* The timer update of a plain ping.
RefreshTimer(f, t0) == [f EXCEPT !.stopAt = t0 + idleTimeout]

\* A timer update that never moves the deadline back.
SetTimer_OnlyForward(f, t0, d) ==
  [f EXCEPT !.stopAt = IF t0 + d > f.stopAt THEN t0 + d ELSE f.stopAt]

\* The timer update of a ping that supplies a duration.
SetTimer(f, t0, d) == [f EXCEPT !.stopAt = t0 + d]

\* RecvPing with request-stop tested before the no-op flag.
RecvPing_StopBeforeNoop(f, ping, t0, run) ==
  LET o == IF f.status = STOPPED
           THEN IF ping.requestStart THEN Start(f, t0, run) ELSE Quiet(f)
           ELSE IF f.status = STARTED
           THEN IF ping.requestStop THEN Stop(f, t0, run)
                ELSE IF ping.noop THEN Quiet(f)
                ELSE IF ping.setTimeout # 0 THEN Quiet(SetTimer(f, t0, ping.setTimeout))
                ELSE Quiet(RefreshTimer(f, t0))
           ELSE Quiet(f)
  IN [fw |-> o.fw, pong |-> MakePong(o.fw, o.err), err |-> o.err,
      calls |-> o.calls, starts |-> o.starts, stops |-> o.stops]

\* RecvPing with the timer branches taken in every state but STOPPED.
RecvPing_TimerInAnyState(f, ping, t0, run) ==
  LET o == IF f.status = STOPPED
           THEN IF ping.requestStart THEN Start(f, t0, run) ELSE Quiet(f)
           ELSE IF ping.noop THEN Quiet(f)
           ELSE IF ping.requestStop
           THEN IF f.status = STARTED THEN Stop(f, t0, run) ELSE Quiet(f)
           ELSE IF ping.setTimeout # 0 THEN Quiet(SetTimer(f, t0, ping.setTimeout))
           ELSE Quiet(RefreshTimer(f, t0))
  IN [fw |-> o.fw, pong |-> MakePong(o.fw, o.err), err |-> o.err,
      calls |-> o.calls, starts |-> o.starts, stops |-> o.stops]

\* RecvPing with the pong filled in before the switch.
RecvPing_PongFirst(f, ping, t0, run) ==
  LET o == IF f.status = STOPPED
           THEN IF ping.requestStart THEN Start(f, t0, run) ELSE Quiet(f)
           ELSE IF f.status = STARTED
           THEN IF ping.noop THEN Quiet(f)
                ELSE IF ping.requestStop THEN Stop(f, t0, run)
                ELSE IF ping.setTimeout # 0 THEN Quiet(SetTimer(f, t0, ping.setTimeout))
                ELSE Quiet(RefreshTimer(f, t0))
           ELSE Quiet(f)
  IN [fw |-> o.fw, pong |-> MakePong(f, o.err), err |-> o.err,
      calls |-> o.calls, starts |-> o.starts, stops |-> o.stops]

\* RecvPing: the switch on fw.status, then the pong built from the struct.
RecvPing(f, ping, t0, run) ==
  With(IF f.status = STOPPED
       THEN IF ping.requestStart THEN Start(f, t0, run) ELSE Quiet(f)
       ELSE IF f.status = STARTED
       THEN IF ping.noop THEN Quiet(f)
            ELSE IF ping.requestStop THEN Stop(f, t0, run)
            ELSE IF ping.setTimeout # 0 THEN Quiet(SetTimer(f, t0, ping.setTimeout))
            ELSE Quiet(RefreshTimer(f, t0))
       ELSE Quiet(f),
       LAMBDA o : [fw |-> o.fw, pong |-> MakePong(o.fw, o.err), err |-> o.err,
                   calls |-> o.calls, starts |-> o.starts, stops |-> o.stops])

\* ------------------------------------------------------------------- tick

\* Poll that enters STOPPING only when Stop did.
Poll_StopDecides(f, t0, run) ==
  IF f.status = STARTED
  THEN IF t0 > f.stopAt THEN Stop(f, t0, run) ELSE Quiet(f)
  ELSE IF f.status = STOPPING
  THEN IF f.ready THEN Quiet([f EXCEPT !.status = STOPPED]) ELSE Quiet(f)
  ELSE IF f.status = STARTING
  THEN IF f.ready
       THEN Quiet([f EXCEPT !.status = STARTED, !.stopAt = t0 + idleTimeout])
       ELSE Quiet(f)
  ELSE Quiet(f)

\* Poll that completes a start without looking at ready.
Poll_IgnoreReady(f, t0, run) ==
  IF f.status = STARTED
  THEN IF t0 > f.stopAt
       THEN LET s == Stop(f, t0, run)
            IN [s EXCEPT !.fw = [s.fw EXCEPT !.status = STOPPING]]
       ELSE Quiet(f)
  ELSE IF f.status = STOPPING
  THEN IF f.ready THEN Quiet([f EXCEPT !.status = STOPPED]) ELSE Quiet(f)
  ELSE IF f.status = STARTING
  THEN Quiet([f EXCEPT !.status = STARTED, !.stopAt = t0 + idleTimeout])
  ELSE Quiet(f)

\* Poll that stops an idle pool in UNHEALTHY as it does in STARTED.
Poll_UnhealthyIdles(f, t0, run) ==
  IF f.status \in {STARTED, UNHEALTHY}
  THEN IF t0 > f.stopAt
       THEN With(Stop(f, t0, run),
                 LAMBDA s : [s EXCEPT !.fw = [s.fw EXCEPT !.status = STOPPING]])
       ELSE Quiet(f)
  ELSE IF f.status = STOPPING
  THEN IF f.ready THEN Quiet([f EXCEPT !.status = STOPPED]) ELSE Quiet(f)
  ELSE IF f.status = STARTING
  THEN IF f.ready
       THEN Quiet([f EXCEPT !.status = STARTED, !.stopAt = t0 + idleTimeout])
       ELSE Quiet(f)
  ELSE Quiet(f)

Poll(f, t0, run) ==
  IF f.status = STARTED
  THEN IF t0 > f.stopAt
       THEN With(Stop(f, t0, run),
                 LAMBDA s : [s EXCEPT !.fw = [s.fw EXCEPT !.status = STOPPING]])
       ELSE Quiet(f)
  ELSE IF f.status = STOPPING
  THEN IF f.ready THEN Quiet([f EXCEPT !.status = STOPPED]) ELSE Quiet(f)
  ELSE IF f.status = STARTING
  THEN IF f.ready
       THEN Quiet([f EXCEPT !.status = STARTED, !.stopAt = t0 + idleTimeout])
       ELSE Quiet(f)
  ELSE Quiet(f)

\* ---------------------------------------------------- health notification

\* A notification handler that rearms the deadline on every STARTED.
Health_AlwaysRearm(f, s, t0) ==
  IF f.status # s
  THEN [(IF s = STARTED THEN [f EXCEPT !.stopAt = t0 + idleTimeout] ELSE f)
          EXCEPT !.status = s]
  ELSE f

\* The hchan case of Spin's select.
Health(f, s, t0) ==
  IF f.status # s
  THEN [(IF s = STARTED /\ f.stopAt < t0 THEN [f EXCEPT !.stopAt = t0 + idleTimeout] ELSE f)
          EXCEPT !.status = s]
  ELSE f

\* ------------------------------------------------------------ status file

NoFile == [exists |-> FALSE, data |-> <<>>]

\* time.Time's JSON form (RFC 3339) and its parse.
Times == 0..(MaxTime + idleTimeout + 3)
FormatTime(t) == "T" \o ToString(t)
ParseTime(str) == CHOOSE t \in Times : FormatTime(t) = str

\* json.Marshal of a Pong: Status is tagged "-" and is left out, Err is
\* omitted when nil.
Marshal(p) ==
  [k \in {"status", "last-started", "last-stopped", "stop-due-at"}
         \cup (IF p.Err # Nil THEN {"error"} ELSE {}) |->
     CASE k = "status" -> p.StatusName
       [] k = "error" -> p.Err
       [] k = "last-started" -> FormatTime(p.LastStarted)
       [] k = "last-stopped" -> FormatTime(p.LastStopped)
       [] k = "stop-due-at" -> FormatTime(p.StopAt)]

\* json.Unmarshal into a zero Pong: a field the object does not name, or
\* that is tagged "-", keeps its zero value.
Unmarshal(obj) ==
  [Status |-> 0,
   StatusName |-> IF "status" \in DOMAIN obj THEN obj["status"] ELSE "",
   Err |-> Nil,
   LastStarted |-> IF "last-started" \in DOMAIN obj THEN ParseTime(obj["last-started"]) ELSE ZeroTime,
   LastStopped |-> IF "last-stopped" \in DOMAIN obj THEN ParseTime(obj["last-stopped"]) ELSE ZeroTime,
   StopAt |-> IF "stop-due-at" \in DOMAIN obj THEN ParseTime(obj["stop-due-at"]) ELSE ZeroTime]

\* WriteStatusFile: outcome "open-failed" leaves the file as it was,
\* "write-failed" leaves it truncated, "ok" writes the marshalled pong.
WriteStatusFile(f, file, outcome) ==
  LET pong == [Status |-> f.status, StatusName |-> StatusString(f.status), Err |-> Nil,
               LastStarted |-> f.lastStarted, LastStopped |-> f.lastStopped,
               StopAt |-> ZeroTime]
  IN IF outcome = "open-failed" THEN file
     ELSE IF outcome = "write-failed" THEN [exists |-> TRUE, data |-> <<>>]
     ELSE [exists |-> TRUE, data |-> <<Marshal(pong)>>]

\* ReadStatusFile: a missing or unparsable file leaves the struct alone.
ReadStatusFile(f, file) ==
  IF ~file.exists \/ file.data = <<>> THEN f
  ELSE LET status == Unmarshal(file.data[1])
       IN [f EXCEPT !.status = status.Status,
                    !.lastStarted = status.LastStarted,
                    !.lastStopped = status.LastStopped]

\* New: the struct as constructed at time t.
New(cfg, t) ==
  [config |-> cfg, status |-> 0, ready |-> FALSE, stopAt |-> t,
   lastStarted |-> ZeroTime, lastStopped |-> ZeroTime]

\* ---------------------------------------------------------------- history

\* The event processed in the last step: which one, the status it found, its
\* input (ping, notified value, failing call) and what the handler reported
\* (error, API calls, sequences invoked).
NoEvent ==
  [op |-> "none", from |-> STOPPED, ping |-> NoPing, hval |-> STOPPED,
   failAt |-> 0, err |-> Nil, calls |-> <<>>, starts |-> 0, stops |-> 0]

\* The runs a handler's outcome can depend on: when it invokes a lifecycle
\* sequence (probe is its outcome when no call fails), the runs of that
\* sequence's calls, and the single empty run otherwise.
RunsOf(probe, f, t0) ==
  IF probe.starts + probe.stops > 0
  THEN Runs(f, t0, Len(probe.calls))
  ELSE {NoRun(f, t0)}

\* The record after a step of a goroutine other than the loop: no event,
\* unless the loop is inside a lifecycle sequence, whose record is kept.
Idle == IF phase = "calling" THEN last ELSE NoEvent

\* No HTTP request is being served.
NoHttp == [req |-> [Path |-> "", RawQuery |-> <<>>], served |-> FALSE]

\* ---------------------------------------------------------------- actions

Init ==
  /\ now = 1
  /\ fw = ReadStatusFile(New(BaseConfig, 1), NoFile)
  /\ hchan = <<>>
  /\ pc = [c \in Callers |-> "idle"]
  /\ pings = [c \in Callers |-> NoPing]
  /\ replyTo = [c \in Callers |-> NewChan]
  /\ statusFile = NoFile
  /\ phase = "running"
  /\ last = NoEvent
  /\ http = NoHttp

\* A caller makes its reply channel and offers ping p on fw.pings, where it
\* blocks until the loop receives.
Submit(c, p) ==
  /\ phase # "exited"
  /\ pc[c] = "idle"
  /\ pings' = [pings EXCEPT ![c] = p]
  /\ replyTo' = [replyTo EXCEPT ![c] = NewChan]
  /\ pc' = [pc EXCEPT ![c] = "sending"]
  /\ last' = Idle
  /\ UNCHANGED <<fw, now, hchan, statusFile, phase, http>>

\* SendPing(start) up to `fw.pings <- sreq`.
SendPing(c) ==
  \E start \in BOOLEAN :
    Submit(c, [NoPing EXCEPT !.replyTo = c, !.requestStart = start])

\* A front end that sets the other fields of Ping too.
SendRequest(c) ==
  \E p \in Pings(c) : Submit(c, p)

\* Spin, case ping := <-fw.pings: RecvPing, which sends the pong on the
\* ping's reply channel and closes it.
SpinPing(c) ==
  /\ phase = "running"
  /\ pc[c] = "sending"
  /\ LET ping == pings[c]
         ch == ping.replyTo
     IN /\ ~replyTo[ch].closed
        /\ Len(replyTo[ch].buf) < 1
        /\ \E run \in RunsOf(RecvPing(fw, ping, now, NoRun(fw, now)), fw, now) :
             \E r \in {RecvPing(fw, ping, now, run)} :
                /\ fw' = r.fw
                /\ now' = run.t1
                /\ replyTo' = [replyTo EXCEPT ![ch] =
                                 [buf |-> Append(@.buf, r.pong), closed |-> TRUE,
                                  sent |-> @.sent + 1]]
                /\ last' = [NoEvent EXCEPT !.op = "ping", !.from = fw.status,
                              !.ping = ping, !.failAt = run.failAt, !.err = r.err, !.calls = r.calls,
                              !.starts = r.starts, !.stops = r.stops]
  /\ pings' = [pings EXCEPT ![c] = NoPing]
  /\ pc' = [pc EXCEPT ![c] = "waiting"]
  /\ UNCHANGED <<hchan, statusFile, phase, http>>

\* SendPing from `status := <-replyTo`: the caller takes its reply and
\* returns; its channel is dropped.
RecvReply(c) ==
  /\ phase # "exited"
  /\ pc[c] = "waiting"
  /\ Len(replyTo[c].buf) > 0
  /\ replyTo' = [replyTo EXCEPT ![c] = NewChan]
  /\ pc' = [pc EXCEPT ![c] = "idle"]
  /\ last' = Idle
  /\ UNCHANGED <<fw, now, hchan, pings, statusFile, phase, http>>

\* Spin, case <-ticker.C: Poll.
SpinTick ==
  /\ phase = "running"
  /\ \E run \in RunsOf(Poll(fw, now, NoRun(fw, now)), fw, now) :
       \E o \in {Poll(fw, now, run)} :
          /\ fw' = o.fw
          /\ now' = run.t1
          /\ last' = [NoEvent EXCEPT !.op = "tick", !.from = fw.status,
                        !.failAt = run.failAt, !.err = o.err, !.calls = o.calls,
                        !.starts = o.starts, !.stops = o.stops]
  /\ UNCHANGED <<hchan, pc, pings, replyTo, statusFile, phase, http>>

\* Spin, case status := <-hchan.
SpinHealth ==
  /\ phase = "running"
  /\ hchan # <<>>
  /\ fw' = Health(fw, Head(hchan), now)
  /\ hchan' = Tail(hchan)
  /\ last' = [NoEvent EXCEPT !.op = "health", !.from = fw.status,
                !.hval = Head(hchan)]
  /\ UNCHANGED <<now, pc, pings, replyTo, statusFile, phase, http>>

\* The health watcher goroutine: a check that may find the resources settled
\* (ready) and offers the status it observed, one of S, on hchan.
Watcher(S) ==
  /\ phase # "exited"
  /\ Len(hchan) < 1
  /\ \E s \in S, r \in BOOLEAN :
       /\ hchan' = Append(hchan, s)
       /\ fw' = [fw EXCEPT !.ready = fw.ready \/ r]
  /\ last' = Idle
  /\ UNCHANGED <<now, pc, pings, replyTo, statusFile, phase, http>>

\* A watcher that may report any status.
HealthWatcher == Watcher(States)

\* The statuses a watcher of running resources reports.
TypicalReports == {STARTED, UNHEALTHY}

\* Time passes.
Clock ==
  /\ now < MaxTime
  /\ now' = now + 1
  /\ last' = Idle
  /\ UNCHANGED <<fw, hchan, pc, pings, replyTo, statusFile, phase, http>>

\* The authority loop with one front end that may send any Ping.
Next ==
  \/ SendRequest(FrontEnd)
  \/ SpinPing(FrontEnd)
  \/ RecvReply(FrontEnd)
  \/ SpinTick
  \/ SpinHealth
  \/ HealthWatcher
  \/ Clock

Spec == Init /\ [][Next]_vars

\* Concurrent callers of SendPing against the same loop.
NextCallers ==
  \/ \E c \in Callers : SendPing(c)
  \/ \E c \in Callers : SpinPing(c)
  \/ \E c \in Callers : RecvReply(c)
  \/ SpinTick
  \/ SpinHealth
  \/ HealthWatcher
  \/ Clock

\* The callers' window: the process is constructed one clock unit before the
\* clock's bound.
InitCallers ==
  /\ now = MaxTime - 1
  /\ fw = ReadStatusFile(New(BaseConfig, now), NoFile)
  /\ hchan = <<>>
  /\ pc = [c \in Callers |-> "idle"]
  /\ pings = [c \in Callers |-> NoPing]
  /\ replyTo = [c \in Callers |-> NewChan]
  /\ statusFile = NoFile
  /\ phase = "running"
  /\ last = NoEvent
  /\ http = NoHttp

SpecCallers == InitCallers /\ [][NextCallers]_vars

\* ------------------------------------------------- exit and restart

\* The process exits: WriteStatusFile, then nothing runs.
Exit ==
  /\ phase = "running"
  /\ \E outcome \in {"ok", "open-failed", "write-failed"} :
       /\ statusFile' = WriteStatusFile(fw, statusFile, outcome)
       /\ last' = [NoEvent EXCEPT !.op = "write", !.from = fw.status, !.err = outcome]
  /\ phase' = "exited"
  /\ UNCHANGED <<fw, now, hchan, pc, pings, replyTo, http>>

\* A fresh process: New, then ReadStatusFile.
Boot ==
  /\ phase = "exited"
  /\ fw' = ReadStatusFile(New(fw.config, now), statusFile)
  /\ phase' = "running"
  /\ last' = [NoEvent EXCEPT !.op = "read", !.from = fw.status, !.err = last.err]
  /\ UNCHANGED <<now, hchan, pc, pings, replyTo, statusFile, http>>

\* The states a struct can be in when the process exits.
Structs ==
  [config : {BaseConfig}, status : States, ready : BOOLEAN,
   stopAt : 0..(MaxTime + 1), lastStarted : 0..MaxTime, lastStopped : 0..MaxTime]

InitSnapshot ==
  /\ now \in 1..MaxTime
  /\ fw \in Structs
  /\ hchan = <<>>
  /\ pc = [c \in Callers |-> "idle"]
  /\ pings = [c \in Callers |-> NoPing]
  /\ replyTo = [c \in Callers |-> NewChan]
  /\ statusFile = NoFile
  /\ phase = "running"
  /\ last = NoEvent
  /\ http = NoHttp

NextSnapshot ==
  \/ Exit
  \/ Boot

SpecSnapshot == InitSnapshot /\ [][NextSnapshot]_vars

\* ------------------------------------ the loop inside a lifecycle sequence

\* The handlers above take one step each.  Here a handler that invokes a
\* lifecycle sequence takes one step per API call, and the other goroutines
\* (callers, health watcher, clock) run between the calls; the loop itself
\* selects again only when the handler has returned.

\* The event the loop has in hand, handled to its end under run.
Handle(f, ev, t0, run) ==
  IF ev.op = "ping"
  THEN RecvPing(f, ev.ping, t0, run)
  ELSE With(Poll(f, t0, run),
            LAMBDA o : [fw |-> o.fw, pong |-> MakePong(o.fw, o.err), err |-> o.err,
                        calls |-> o.calls, starts |-> o.starts, stops |-> o.stops])

\* The first statement of Start and of Stop: the attempt's timestamp.
Enter(f, probe, t0) ==
  IF probe.starts = 1 THEN [f EXCEPT !.lastStarted = t0]
  ELSE [f EXCEPT !.lastStopped = t0]

\* The clock reading the sequence in progress began with.
EnteredAt(f, ev) == IF ev.starts = 1 THEN f.lastStarted ELSE f.lastStopped

\* Spin, case ping := <-fw.pings, for a ping whose handling makes no API call.
SpinPingQuiet(c) ==
  /\ SpinPing(c)
  /\ last'.starts + last'.stops = 0

\* Spin, case ping := <-fw.pings, for a ping that invokes Start or Stop: the
\* loop takes the ping and is inside the sequence, before its first call.
SpinPingBegin(c) ==
  /\ phase = "running"
  /\ pc[c] = "sending"
  /\ \E ping \in {pings[c]} :
       \E probe \in {RecvPing(fw, ping, now, NoRun(fw, now))} :
         /\ probe.starts + probe.stops > 0
         /\ fw' = Enter(fw, probe, now)
         /\ last' = [NoEvent EXCEPT !.op = "ping", !.from = fw.status, !.ping = ping,
                       !.starts = probe.starts, !.stops = probe.stops]
  /\ pings' = [pings EXCEPT ![c] = NoPing]
  /\ pc' = [pc EXCEPT ![c] = "waiting"]
  /\ phase' = "calling"
  /\ UNCHANGED <<now, hchan, replyTo, statusFile, http>>

\* Spin, case <-ticker.C, for a tick that makes no API call.
SpinTickQuiet ==
  /\ SpinTick
  /\ last'.starts + last'.stops = 0

\* A tick handler that runs beside the loop, whatever the loop is doing.
SpinTickBegin_OwnGoroutine ==
  /\ phase # "exited"
  /\ \E probe \in {Poll(fw, now, NoRun(fw, now))} :
       /\ probe.starts + probe.stops > 0
       /\ fw' = Enter(fw, probe, now)
       /\ last' = [NoEvent EXCEPT !.op = "tick", !.from = fw.status,
                     !.starts = Idle.starts + probe.starts,
                     !.stops = Idle.stops + probe.stops]
  /\ phase' = "calling"
  /\ UNCHANGED <<now, hchan, pc, pings, replyTo, statusFile, http>>

\* Spin, case <-ticker.C, for a tick past the deadline: the loop is inside
\* Stop, before its first call.
SpinTickBegin ==
  /\ phase = "running"
  /\ \E probe \in {Poll(fw, now, NoRun(fw, now))} :
       /\ probe.starts + probe.stops > 0
       /\ fw' = Enter(fw, probe, now)
       /\ last' = [NoEvent EXCEPT !.op = "tick", !.from = fw.status,
                     !.starts = probe.starts, !.stops = probe.stops]
  /\ phase' = "calling"
  /\ UNCHANGED <<now, hchan, pc, pings, replyTo, statusFile, http>>

\* A handler that returns on an error without sending the pong.
SpinCall_NoReplyOnError ==
  /\ phase = "calling"
  /\ \E t0 \in {EnteredAt(fw, last)}, fail \in BOOLEAN :
       \E probe \in {Handle(fw, last, t0, NoRun(fw, t0))} :
         LET k == Len(last.calls) + 1
         IN IF ~fail /\ k < Len(probe.calls)
            THEN /\ last' = [last EXCEPT !.calls = Append(@, probe.calls[k])]
                 /\ UNCHANGED <<fw, replyTo, phase>>
            ELSE \E run \in {[NoRun(fw, t0) EXCEPT !.t1 = now,
                                                   !.failAt = IF fail THEN k ELSE 0]} :
                   \E r \in {Handle(fw, last, t0, run)} :
                     /\ fw' = r.fw
                     /\ replyTo' = IF last.op = "ping" /\ r.err = Nil
                                   THEN [replyTo EXCEPT ![last.ping.replyTo] =
                                           [buf |-> Append(@.buf, r.pong), closed |-> TRUE,
                                            sent |-> @.sent + 1]]
                                   ELSE replyTo
                     /\ last' = [last EXCEPT !.failAt = run.failAt, !.err = r.err,
                                             !.calls = r.calls]
                     /\ phase' = "running"
  /\ UNCHANGED <<now, hchan, pc, pings, statusFile, http>>

\* The next API call of the sequence in progress returns, with an error or
\* without.  After an error, or after the last call, the handler runs to its
\* end: Start or Stop sets the struct, RecvPing sends the pong.
SpinCall ==
  /\ phase = "calling"
  /\ \E t0 \in {EnteredAt(fw, last)}, fail \in BOOLEAN :
       \E probe \in {Handle(fw, last, t0, NoRun(fw, t0))} :
         LET k == Len(last.calls) + 1
         IN IF ~fail /\ k < Len(probe.calls)
            THEN /\ last' = [last EXCEPT !.calls = Append(@, probe.calls[k])]
                 /\ UNCHANGED <<fw, replyTo, phase>>
            ELSE \E run \in {[NoRun(fw, t0) EXCEPT !.t1 = now,
                                                   !.failAt = IF fail THEN k ELSE 0]} :
                   \E r \in {Handle(fw, last, t0, run)} :
                     /\ fw' = r.fw
                     /\ replyTo' = IF last.op = "ping"
                                   THEN [replyTo EXCEPT ![last.ping.replyTo] =
                                           [buf |-> Append(@.buf, r.pong), closed |-> TRUE,
                                            sent |-> @.sent + 1]]
                                   ELSE replyTo
                     /\ last' = [last EXCEPT !.failAt = run.failAt, !.err = r.err,
                                             !.calls = r.calls]
                     /\ phase' = "running"
  /\ UNCHANGED <<now, hchan, pc, pings, statusFile, http>>

\* A front end that asks for a start or for a stop.
SendOrder(c) ==
  \E p \in {[NoPing EXCEPT !.replyTo = c, !.requestStart = TRUE],
            [NoPing EXCEPT !.replyTo = c, !.requestStop = TRUE]} :
    Submit(c, p)

\* The step-wise loop with front ends that order starts and stops and a
\* watcher of running resources.
NextSteps ==
  \/ \E c \in Callers : SendOrder(c)
  \/ \E c \in Callers : SpinPingQuiet(c)
  \/ \E c \in Callers : SpinPingBegin(c)
  \/ \E c \in Callers : RecvReply(c)
  \/ SpinTickQuiet
  \/ SpinTickBegin
  \/ SpinCall
  \/ SpinHealth
  \/ Watcher(TypicalReports)
  \/ Clock

SpecSteps == InitCallers /\ [][NextSteps]_vars

\* The step-wise loop with a watcher of running resources.
NextFair ==
  \/ \E c \in Callers : SendPing(c)
  \/ \E c \in Callers : SpinPingQuiet(c)
  \/ \E c \in Callers : SpinPingBegin(c)
  \/ \E c \in Callers : RecvReply(c)
  \/ SpinTickQuiet
  \/ SpinTickBegin
  \/ SpinCall
  \/ SpinHealth
  \/ Watcher(TypicalReports)
  \/ Clock

\* The loop's fairness: a lifecycle call returns; select does not pass over a
\* blocked sender for ever (it picks among its ready cases at random); a
\* caller whose reply is in its channel takes it.
FairSteps ==
  /\ WF_vars(SpinCall)
  /\ \A c \in Callers : SF_vars(SpinPingQuiet(c) \/ SpinPingBegin(c))
  /\ \A c \in Callers : WF_vars(RecvReply(c))

SpecFair == InitCallers /\ [][NextFair]_vars /\ FairSteps

\* ------------------------------------------- lifecycle sequences alone

\* Start called in STOPPED and Stop called in STARTED, under any of the
\* configurations, with any call failing and any range order.
RunStart ==
  /\ phase = "running" /\ last.op = "none"
  /\ fw.status = STOPPED
  /\ \E run \in Runs(fw, now, Len(Start(fw, now, NoRun(fw, now)).calls)) :
       \E o \in {Start(fw, now, run)} :
          /\ fw' = o.fw
          /\ now' = run.t1
          /\ last' = [NoEvent EXCEPT !.op = "start", !.from = fw.status,
                        !.failAt = run.failAt, !.err = o.err, !.calls = o.calls,
                        !.starts = o.starts, !.stops = o.stops]
  /\ UNCHANGED <<hchan, pc, pings, replyTo, statusFile, phase, http>>

RunStop ==
  /\ phase = "running" /\ last.op = "none"
  /\ fw.status = STARTED
  /\ \E run \in Runs(fw, now, Len(Stop(fw, now, NoRun(fw, now)).calls)) :
       \E o \in {Stop(fw, now, run)} :
          /\ fw' = o.fw
          /\ now' = run.t1
          /\ last' = [NoEvent EXCEPT !.op = "stop", !.from = fw.status,
                        !.failAt = run.failAt, !.err = o.err, !.calls = o.calls,
                        !.starts = o.starts, !.stops = o.stops]
  /\ UNCHANGED <<hchan, pc, pings, replyTo, statusFile, phase, http>>

InitLifecycle ==
  /\ now \in 1..(MaxTime - 1)
  /\ \E cfg \in Configs, st \in {STOPPED, STARTED}, rdy \in BOOLEAN :
       fw = [New(cfg, 1) EXCEPT !.status = st, !.ready = rdy]
  /\ hchan = <<>>
  /\ pc = [c \in Callers |-> "idle"]
  /\ pings = [c \in Callers |-> NoPing]
  /\ replyTo = [c \in Callers |-> NewChan]
  /\ statusFile = NoFile
  /\ phase = "running"
  /\ last = NoEvent
  /\ http = NoHttp

NextLifecycle ==
  \/ RunStart
  \/ RunStop

SpecLifecycle == InitLifecycle /\ [][NextLifecycle]_vars

\* ------------------------------------------------------ HTTP front end

\* Query keys, in the order sort.Strings puts them, and values.
Keys == <<"a", "flywheel", "z">>
Vals == {"", "1", "start"}

\* A raw query string: its key=value pairs in the order written.
Pairs == {<<Keys[i], v>> : i \in DOMAIN Keys, v \in Vals}
RawQueries == UNION {[1..n -> Pairs] : n \in 0..MaxQuery}

\* url.Values: r.URL.Query() maps each key to its values in the order written.
ValuesOf(raw, k) ==
  LET hits == SelectSeq(raw, LAMBDA p : p[1] = k)
  IN [i \in 1..Len(hits) |-> hits[i][2]]

Query(raw) == [k \in {raw[i][1] : i \in DOMAIN raw} |-> ValuesOf(raw, k)]

\* url.Values.Del and url.Values.Set.
Del(q, k) == [x \in DOMAIN q \ {k} |-> q[x]]
Set(q, k, v) == [x \in DOMAIN q \cup {k} |-> IF x = k THEN <<v>> ELSE q[x]]

\* url.Values.Encode: the keys sorted, each key's values in their order.
RECURSIVE EncodeFrom(_, _)
EncodeFrom(q, i) ==
  IF i > Len(Keys) THEN <<>>
  ELSE (IF Keys[i] \in DOMAIN q
        THEN [j \in 1..Len(q[Keys[i]]) |-> <<Keys[i], q[Keys[i]][j]>>]
        ELSE <<>>) \o EncodeFrom(q, i + 1)

Encode(q) == EncodeFrom(q, 1)

\* The requests ServeHTTP is given and the pongs SendPing may return.
Requests == [Path : {"/", "/x"}, RawQuery : RawQueries]
HttpPongs == [Status : States, Err : {Nil, "error: StartInstances instances"}]

\* Proxy: the request is sent to the endpoint with its URL's path and query
\* (the Del on line 30 works on a copy of the parsed query).
Proxy(req) ==
  [code |-> 200, kind |-> "proxied", Location |-> "",
   url |-> [Path |-> req.Path, RawQuery |-> req.RawQuery]]

\* ServeHTTP with the redirect only for a start directive.
ServeHTTP_RedirectOnlyStart(req, start, pong) ==
  LET query == Query(req.RawQuery)
      ok == "flywheel" \in DOMAIN query
      page(kind, url) == [code |-> 200, kind |-> kind, Location |-> "", url |-> url]
  IN IF start
     THEN [code |-> 302, kind |-> "redirect",
           Location |-> [Path |-> req.Path, RawQuery |-> Encode(Del(query, "flywheel"))],
           url |-> ""]
     ELSE IF pong.Err # Nil THEN page("error", "")
     ELSE CASE pong.Status = STOPPED ->
                 page("stopped", [Path |-> req.Path,
                                  RawQuery |-> Encode(Set(query, "flywheel", "start"))])
            [] pong.Status = STARTING -> page("starting", "")
            [] pong.Status = STARTED -> Proxy(req)
            [] pong.Status = STOPPING -> page("stopping", "")
            [] pong.Status = UNHEALTHY -> page("unhealthy", "")
            [] OTHER -> page("empty", "")

\* The flag ServeHTTP passes to SendPing.
StartDirective(req) ==
  LET query == Query(req.RawQuery)
  IN "flywheel" \in DOMAIN query /\ query["flywheel"][1] = "start"

\* ServeHTTP after SendPing(start) returned pong: the response written.
ServeHTTP(req, start, pong) ==
  LET query == Query(req.RawQuery)
      ok == "flywheel" \in DOMAIN query
      page(kind, url) == [code |-> 200, kind |-> kind, Location |-> "", url |-> url]
  IN IF ok
     THEN [code |-> 302, kind |-> "redirect",
           Location |-> [Path |-> req.Path, RawQuery |-> Encode(Del(query, "flywheel"))],
           url |-> ""]
     ELSE IF pong.Err # Nil THEN page("error", "")
     ELSE CASE pong.Status = STOPPED ->
                 page("stopped", [Path |-> req.Path,
                                  RawQuery |-> Encode(Set(query, "flywheel", "start"))])
            [] pong.Status = STARTING -> page("starting", "")
            [] pong.Status = STARTED -> Proxy(req)
            [] pong.Status = STOPPING -> page("stopping", "")
            [] pong.Status = UNHEALTHY -> page("unhealthy", "")
            [] OTHER -> page("empty", "")

\* A request is served: SendPing returns some pong and the response is written.
Serve ==
  /\ ~http.served
  /\ \E pong \in HttpPongs :
       http' = [req |-> http.req, served |-> TRUE,
                start |-> StartDirective(http.req), pong |-> pong,
                resp |-> ServeHTTP(http.req, StartDirective(http.req), pong)]
  /\ UNCHANGED <<fw, now, hchan, pc, pings, replyTo, statusFile, phase, last>>

InitHTTP ==
  /\ now = 1
  /\ fw = ReadStatusFile(New(BaseConfig, 1), NoFile)
  /\ hchan = <<>>
  /\ pc = [c \in Callers |-> "idle"]
  /\ pings = [c \in Callers |-> NoPing]
  /\ replyTo = [c \in Callers |-> NewChan]
  /\ statusFile = NoFile
  /\ phase = "running"
  /\ last = NoEvent
  /\ \E req \in Requests : http = [NoHttp EXCEPT !.req = req]

NextHTTP ==
  \/ Serve

SpecHTTP == InitHTTP /\ [][NextHTTP]_vars

\* ================================================================ claims

\* The step is the loop handling a ping / a tick / a health notification.
PingStep == last'.op = "ping"
TickStep == last'.op = "tick"
HealthStep == last'.op = "health"

\* The pong the ping step put on the ping's reply channel.
SentPong == replyTo'[last'.ping.replyTo].buf[1]

\* A plain ping: no flag and no duration.
Plain(p) == ~p.requestStart /\ ~p.requestStop /\ ~p.noop /\ p.setTimeout = 0

\* ---- C1
\* C1: a request-start ping handled in STOPPED: when no call of the start
\* sequence fails, the status becomes STARTING and stopAt is strictly after
\* the clock (before and after the calls); when a call fails, the status
\* stays STOPPED and the pong carries that call's error.
C1_StartFromStopped ==
  [][(PingStep /\ fw.status = STOPPED /\ last'.ping.requestStart) =>
       LET failed == last'.failAt > 0
       IN /\ last'.starts = 1
          /\ ~failed => /\ fw'.status = STARTING
                        /\ fw'.stopAt > now
                        /\ fw'.stopAt > now'
                        /\ SentPong.Err = Nil
          /\ failed => /\ fw'.status = STOPPED
                       /\ SentPong.Status = STOPPED
                       /\ SentPong.Err # Nil
                       /\ SentPong.Err = CallError(last'.calls[last'.failAt])]_vars

\* A start requested in STOPPED has failed and the pong carries the error.
C1_Witness ==
  /\ last.op = "ping" /\ last.from = STOPPED /\ last.ping.requestStart
  /\ last.starts = 1 /\ last.err # Nil
  /\ fw.status = STOPPED
  /\ replyTo[last.ping.replyTo].buf # <<>>
  /\ replyTo[last.ping.replyTo].buf[1].Err = last.err

\* ---- C2
\* C2 as claimed: a plain ping handled in STARTED sets stopAt to
\* now+idleTimeout and never to an earlier instant than the stopAt held
\* before ("later" is read as "not earlier", so that two pings within one
\* clock reading do not count against the claim).
C2_PlainPingMonotonic ==
  [][(PingStep /\ fw.status = STARTED /\ Plain(last'.ping)) =>
       /\ fw'.stopAt = now + idleTimeout
       /\ fw'.stopAt >= fw.stopAt]_vars

\* C2 as amended: a plain ping handled in STARTED sets stopAt to
\* now+idleTimeout, strictly after the clock, invokes no sequence and leaves
\* the status STARTED (the new stopAt may be earlier than the one before).
C2_PlainPingRefreshes ==
  [][(PingStep /\ fw.status = STARTED /\ Plain(last'.ping)) =>
       /\ fw'.stopAt = now + idleTimeout
       /\ fw'.stopAt > now
       /\ fw'.status = STARTED
       /\ last'.starts = 0 /\ last'.stops = 0]_vars

\* A plain ping has been handled in STARTED and the deadline is now+idleTimeout.
C2_Witness ==
  /\ last.op = "ping" /\ last.from = STARTED /\ Plain(last.ping)
  /\ fw.status = STARTED
  /\ fw.stopAt = now + idleTimeout

\* ---- C3
\* C3: a ping with the no-op flag handled in STARTED leaves stopAt as it was
\* and invokes no stop sequence (no API call), whatever its other fields.
C3_NoopKeepsDeadline ==
  [][(PingStep /\ fw.status = STARTED /\ last'.ping.noop) =>
       /\ fw'.stopAt = fw.stopAt
       /\ last'.stops = 0
       /\ last'.calls = <<>>]_vars

\* A no-op ping that also asks for a stop and supplies a duration has been
\* handled in STARTED.
C3_Witness ==
  /\ last.op = "ping" /\ last.from = STARTED
  /\ last.ping.noop /\ last.ping.requestStop /\ last.ping.setTimeout # 0
  /\ fw.status = STARTED

\* ---- C4
\* C4: a ping handled in STARTING, STOPPING or UNHEALTHY leaves status,
\* ready, stopAt, lastStarted and lastStopped as they were, and one pong
\* reporting exactly these values (and no error) is put on its channel.
C4_OtherStatesUntouched ==
  [][(PingStep /\ fw.status \in {STARTING, STOPPING, UNHEALTHY}) =>
       /\ fw'.status = fw.status
       /\ fw'.ready = fw.ready
       /\ fw'.stopAt = fw.stopAt
       /\ fw'.lastStarted = fw.lastStarted
       /\ fw'.lastStopped = fw.lastStopped
       /\ Len(replyTo'[last'.ping.replyTo].buf) = 1
       /\ SentPong.Status = fw.status
       /\ SentPong.StatusName = StatusString(fw.status)
       /\ SentPong.Err = Nil
       /\ SentPong.LastStarted = fw.lastStarted
       /\ SentPong.LastStopped = fw.lastStopped
       /\ SentPong.StopAt = fw.stopAt]_vars

\* A ping asking for a stop has been answered in UNHEALTHY.
C4_Witness ==
  /\ last.op = "ping" /\ last.from = UNHEALTHY
  /\ last.ping.requestStop /\ ~last.ping.noop
  /\ fw.status = UNHEALTHY
  /\ Len(replyTo[last.ping.replyTo].buf) = 1

\* ---- C5
\* C5: a tick in STARTED with now <= stopAt leaves the status STARTED; a
\* tick in STARTED with now > stopAt invokes the stop sequence once and
\* leaves the status STOPPING whether or not the sequence failed; a tick in
\* STOPPING invokes nothing.
C5_TickIdleStop ==
  [][TickStep =>
       /\ (fw.status = STARTED /\ now <= fw.stopAt) =>
            (fw'.status = STARTED /\ last'.stops = 0)
       /\ (fw.status = STARTED /\ now > fw.stopAt) =>
            (fw'.status = STOPPING /\ last'.stops = 1 /\ last'.starts = 0)
       /\ fw.status = STOPPING =>
            (last'.stops = 0 /\ last'.calls = <<>>)]_vars

\* An idle-timeout tick whose stop sequence failed has left STOPPING.
C5_Witness ==
  /\ last.op = "tick" /\ last.from = STARTED
  /\ last.stops = 1 /\ last.err # Nil
  /\ fw.status = STOPPING

\* ---- C6
\* C6 as claimed: in every step of the loop (ping, tick, health
\* notification) the status goes from STARTING to STARTED, or from STOPPING
\* to STOPPED, only when ready is true.
C6_ReadyGatesEveryEvent ==
  [][(PingStep \/ TickStep \/ HealthStep) =>
       /\ (fw.status = STARTING /\ fw'.status = STARTED) => fw.ready
       /\ (fw.status = STOPPING /\ fw'.status = STOPPED) => fw.ready]_vars

\* C6 as amended: in every ping and tick step the status goes from STARTING
\* to STARTED, or from STOPPING to STOPPED, only when ready is true (a
\* health notification makes either change whatever ready is).
C6_ReadyGatesTick ==
  [][(PingStep \/ TickStep) =>
       /\ (fw.status = STARTING /\ fw'.status = STARTED) => (fw.ready /\ TickStep)
       /\ (fw.status = STOPPING /\ fw'.status = STOPPED) => (fw.ready /\ TickStep)]_vars

\* A tick has completed a start with ready true.
C6_Witness ==
  /\ last.op = "tick" /\ last.from = STARTING
  /\ fw.status = STARTED /\ fw.ready

\* ---- C7
\* C7: a health notification equal to the status changes nothing of the
\* struct; one reporting STARTED in another status sets stopAt to
\* now+idleTimeout when stopAt is before now and leaves stopAt as it was
\* otherwise.
C7_HealthNotification ==
  [][HealthStep =>
       /\ last'.hval = fw.status => fw' = fw
       /\ (last'.hval = STARTED /\ fw.status # STARTED) =>
            /\ fw'.status = STARTED
            /\ fw.stopAt < now => fw'.stopAt = now + idleTimeout
            /\ fw.stopAt >= now => fw'.stopAt = fw.stopAt]_vars

\* A STARTED notification has arrived in UNHEALTHY with the deadline lapsed
\* and the deadline is rearmed.
C7_Witness ==
  /\ last.op = "health" /\ last.hval = STARTED /\ last.from = UNHEALTHY
  /\ fw.status = STARTED
  /\ now > 1
  /\ fw.stopAt = now + idleTimeout

\* ---- C8
\* C8: a status file written (successfully) at exit and read by the fresh
\* process restores the status, lastStarted and lastStopped of the struct
\* that was written.
C8_RoundTrip ==
  [][(last.op = "write" /\ last.err = "ok" /\ last'.op = "read") =>
       /\ fw'.status = fw.status
       /\ fw'.lastStarted = fw.lastStarted
       /\ fw'.lastStopped = fw.lastStopped]_vars

\* ---- C9
\* C9: a request-stop ping (without the no-op flag) handled in STARTED whose
\* stop sequence has a failing call: the pong carries that call's error, the
\* status stays STARTED and stopAt is as it was.
C9_FailedStopKeepsStarted ==
  [][(/\ PingStep /\ fw.status = STARTED
      /\ last'.ping.requestStop /\ ~last'.ping.noop
      /\ last'.failAt > 0) =>
       /\ last'.stops = 1
       /\ SentPong.Err # Nil
       /\ SentPong.Err = CallError(last'.calls[last'.failAt])
       /\ SentPong.Status = STARTED
       /\ fw'.status = STARTED
       /\ fw'.stopAt = fw.stopAt]_vars

\* A stop requested in STARTED has failed.
C9_Witness ==
  /\ last.op = "ping" /\ last.from = STARTED
  /\ last.ping.requestStop /\ ~last.ping.noop
  /\ last.stops = 1 /\ last.err # Nil
  /\ fw.status = STARTED
  /\ replyTo[last.ping.replyTo].buf[1].Err = last.err

\* ---- C10
\* C10: with callers of SendPing running concurrently, a channel never
\* carries more than the one pong of its request: nothing is on it before
\* the request is handled, exactly one pong after; the step that handles
\* caller c's ping writes to c's channel only, and the pong holds the
\* struct's values as the handler left them.
C10_ExactlyOneReply ==
  /\ [](\A c \in Callers :
          /\ replyTo[c].sent <= 1
          /\ pc[c] \in {"idle", "sending"} =>
               (replyTo[c].sent = 0 /\ replyTo[c].buf = <<>>)
          /\ pc[c] = "waiting" =>
               (replyTo[c].sent = 1 /\ Len(replyTo[c].buf) = 1))
  /\ [][\A c \in Callers :
          (pc[c] = "sending" /\ pc'[c] = "waiting") =>
            /\ \A d \in Callers \ {c} : replyTo'[d] = replyTo[d]
            /\ replyTo'[c].buf[1].Status = fw'.status
            /\ replyTo'[c].buf[1].StatusName = StatusString(fw'.status)
            /\ replyTo'[c].buf[1].LastStarted = fw'.lastStarted
            /\ replyTo'[c].buf[1].LastStopped = fw'.lastStopped
            /\ replyTo'[c].buf[1].StopAt = fw'.stopAt]_vars

\* Two callers hold their replies at once, and the replies differ.
C10_Witness ==
  /\ \A c \in Callers : pc[c] = "waiting" /\ Len(replyTo[c].buf) = 1
  /\ replyTo["c1"].buf[1] # replyTo["c2"].buf[1]

\* ---- C11
\* C11: when lifecycle calls return, select is fair to blocked senders and
\* callers take their replies, every caller that is blocked in SendPing (on
\* fw.pings or on its reply channel) gets out of it, whatever ticks,
\* notifications and sequences of other callers come in between; and the
\* loop always has a step to take: a tick when it selects, the next call's
\* return when it is inside a sequence, and the receive of any blocked
\* sender's ping when it selects.
C11_EveryCallerAnswered ==
  /\ \A c \in Callers : (pc[c] = "sending") ~> (pc[c] = "waiting" /\ Len(replyTo[c].buf) = 1)
  /\ \A c \in Callers : (pc[c] # "idle") ~> (pc[c] = "idle")
  /\ [](/\ phase = "running" => ENABLED (SpinTickQuiet \/ SpinTickBegin)
        /\ phase = "calling" => ENABLED SpinCall
        /\ \A c \in Callers :
             (phase = "running" /\ pc[c] = "sending") =>
               ENABLED (SpinPingQuiet(c) \/ SpinPingBegin(c)))

\* A caller is blocked on fw.pings while the loop is inside the start
\* sequence another caller asked for.
C11_Witness ==
  /\ phase = "calling" /\ last.op = "ping" /\ last.starts = 1
  /\ last.calls # <<>>
  /\ \E c \in Callers : pc[c] = "sending" /\ c # last.ping.replyTo

\* ---- C12
\* C12: with the handlers split at their API calls and callers, watcher and
\* clock running in between: at most one lifecycle sequence is in progress
\* at any time; the start sequence is entered only with the status STOPPED
\* and the stop sequence only with the status STARTED; and while a sequence
\* is in progress no other one is entered and the status stays as the
\* sequence found it, until the sequence's own last step.
C12_OneSequenceAtATime ==
  /\ [](phase = "calling" => last.starts + last.stops = 1)
  /\ [][(phase # "calling" /\ phase' = "calling") =>
          /\ last'.starts + last'.stops = 1
          /\ last'.starts = 1 => fw.status = STOPPED
          /\ last'.stops = 1 => fw.status = STARTED]_vars
  /\ [][(phase = "calling" /\ phase' = "calling") =>
          /\ last'.starts = last.starts /\ last'.stops = last.stops
          /\ last'.op = last.op /\ last'.ping = last.ping
          /\ fw'.status = fw.status]_vars

\* The loop is inside the stop sequence of an idle tick, past its first
\* call, while one caller is blocked on fw.pings and a notification waits.
C12_Witness ==
  /\ phase = "calling" /\ last.op = "tick" /\ last.stops = 1
  /\ last.calls # <<>>
  /\ fw.status = STARTED
  /\ \E c \in Callers : pc[c] = "sending" /\ pings[c].requestStop
  /\ hchan # <<>>

\* ---- C13
\* The edges of the lifecycle cycle and of its UNHEALTHY side branch.
CycleEdges ==
  {<<STOPPED, STARTING>>, <<STARTING, STARTED>>, <<STARTED, STOPPING>>,
   <<STOPPING, STOPPED>>}
SideEdges == {<<STARTED, UNHEALTHY>>, <<UNHEALTHY, STARTED>>}

\* C13 as claimed: every change of the status made in a step of the loop
\* (ping, tick, health notification) is along a cycle edge or a side edge.
C13_OnlyLifecycleEdges ==
  [][((PingStep \/ TickStep \/ HealthStep) /\ fw'.status # fw.status) =>
       <<fw.status, fw'.status>> \in CycleEdges \cup SideEdges]_vars

\* C13 as amended: every change of the status made in a ping or tick step
\* is along a cycle edge (a ping: STOPPED to STARTING, STARTED to STOPPING;
\* a tick: the other two and STARTED to STOPPING), so neither enters
\* UNHEALTHY or leaves it; a health notification sets the status to the
\* value notified, from whatever status.
C13_HandlerEdges ==
  [][/\ (PingStep /\ fw'.status # fw.status) =>
          <<fw.status, fw'.status>> \in {<<STOPPED, STARTING>>, <<STARTED, STOPPING>>}
     /\ (TickStep /\ fw'.status # fw.status) =>
          <<fw.status, fw'.status>> \in
            {<<STARTING, STARTED>>, <<STARTED, STOPPING>>, <<STOPPING, STOPPED>>}
     /\ HealthStep => fw'.status = last'.hval]_vars

\* A notification has taken the status from STOPPING straight to UNHEALTHY.
C13_Witness ==
  /\ last.op = "health" /\ last.from = STOPPING /\ last.hval = UNHEALTHY
  /\ fw.status = UNHEALTHY

\* ---- C14
\* The calls each sequence is to make when none fails, in their order, for a
\* configuration and an order of its Terminate groups.
Flat(groups, ops) ==
  [i \in 1..(Len(groups) * Len(ops)) |->
     <<ops[((i - 1) % Len(ops)) + 1], groups[((i - 1) \div Len(ops)) + 1]>>]

ExpectedStart(cfg, order) ==
  (IF cfg.Instances = <<>> THEN <<>> ELSE <<<<"StartInstances", "instances">>>>)
  \o [i \in 1..Len(order) |->
        <<"UpdateAutoScalingGroup:" \o cfg.Terminate[order[i]], order[i]>>]
  \o Flat(cfg.Stop, <<"DescribeAutoScalingGroups", "StartInstances">>)

ExpectedStop(cfg, order) ==
  (IF cfg.Instances = <<>> THEN <<>> ELSE <<<<"StopInstances", "instances">>>>)
  \o Flat(order, <<"UpdateAutoScalingGroup:0">>)
  \o Flat(cfg.Stop, <<"DescribeAutoScalingGroups", "SuspendProcesses:ReplaceUnhealthy",
                      "StopInstances">>)

\* C14: the calls a sequence has made are the first calls of its fixed
\* order (raw instances, then each Terminate group once, then the Stop
\* groups in the list's order, each with its calls in their order): all of
\* them when no call fails, and those up to and including the failing call
\* otherwise; the error returned is the failing call's, no error is returned
\* when none fails; nothing but these calls is made, so no completed step is
\* undone.
C14_OrderedAndHalting ==
  [][last'.op \in {"start", "stop"} =>
       \E order \in RangeOrders(DOMAIN fw.config.Terminate) :
         LET all == IF last'.op = "start" THEN ExpectedStart(fw.config, order)
                    ELSE ExpectedStop(fw.config, order)
             k == last'.failAt
         IN /\ k \in 1..Len(all) =>
                 /\ last'.calls = SubSeq(all, 1, k)
                 /\ last'.err = CallError(all[k])
                 /\ fw'.status = fw.status
            /\ k \notin 1..Len(all) =>
                 /\ last'.calls = all
                 /\ last'.err = Nil
                 /\ fw'.status = IF last'.op = "start" THEN STARTING ELSE STOPPING]_vars

\* A stop sequence over two Terminate groups and two Stop groups has halted
\* at the suspend call of the first Stop group.
C14_Witness ==
  /\ last.op = "stop"
  /\ Len(fw.config.Stop) = 2 /\ Cardinality(DOMAIN fw.config.Terminate) = 2
  /\ fw.config.Instances # <<>>
  /\ last.failAt = 5 /\ Len(last.calls) = 5
  /\ last.calls[5] = <<"SuspendProcesses:ReplaceUnhealthy", "s1">>
  /\ last.err = CallError(last.calls[5])
  /\ fw.status = STARTED

\* ---- C15
\* C15: a tick in STARTED past the deadline leaves the status STOPPING with
\* ready false (no readiness has been reported since the stop began); a tick
\* in STOPPING leaves the status STOPPING while ready is false and makes it
\* STOPPED once ready is true.
C15_IdleStopCompletes ==
  [][TickStep =>
       /\ (fw.status = STARTED /\ now > fw.stopAt) =>
            (fw'.status = STOPPING /\ ~fw'.ready)
       /\ (fw.status = STOPPING /\ ~fw.ready) => fw'.status = STOPPING
       /\ (fw.status = STOPPING /\ fw.ready) => fw'.status = STOPPED]_vars

\* ---- C16
\* The four effects a ping can have in STARTED, each told by what the step
\* did: nothing; a stop sequence; the deadline set from the ping's duration;
\* the deadline set from the idle timeout.
EffectNone == fw' = fw /\ last'.stops = 0
EffectStop == last'.stops = 1
EffectSetTimer ==
  /\ last'.stops = 0
  /\ fw' = [fw EXCEPT !.stopAt = now + last'.ping.setTimeout]
EffectRefresh ==
  /\ last'.stops = 0
  /\ fw' = [fw EXCEPT !.stopAt = now + idleTimeout]

\* C16: a ping handled in STARTED has the effect its flags select, in the
\* order no-op, request-stop, non-zero duration, plain refresh, whatever the
\* later flags are; a ping with a non-zero duration and neither no-op nor
\* request-stop leaves stopAt = now + duration, also when that is before the
\* old stopAt or before now; and nothing but stopAt changes without a stop
\* sequence.
C16_FlagPrecedence ==
  [][(PingStep /\ fw.status = STARTED) =>
       LET p == last'.ping
       IN /\ p.noop => EffectNone
          /\ (~p.noop /\ p.requestStop) => EffectStop
          /\ (~p.noop /\ ~p.requestStop /\ p.setTimeout # 0) =>
               (EffectSetTimer /\ fw'.stopAt = now + p.setTimeout)
          /\ (~p.noop /\ ~p.requestStop /\ p.setTimeout = 0) => EffectRefresh
          /\ last'.starts = 0]_vars

\* A ping with a negative duration (and the request-start flag) has moved
\* the deadline back, before the clock.
C16_Witness ==
  /\ last.op = "ping" /\ last.from = STARTED
  /\ ~last.ping.noop /\ ~last.ping.requestStop /\ last.ping.requestStart
  /\ last.ping.setTimeout < 0
  /\ fw.status = STARTED
  /\ fw.stopAt < now

\* ---- C17
\* C17: after every ping or tick step that changes the status to STARTING
\* or to STOPPING, ready is false.
C17_ReadyClearedOnEntry ==
  [][((PingStep \/ TickStep) /\ fw'.status # fw.status
        /\ fw'.status \in {STARTING, STOPPING}) => ~fw'.ready]_vars

\* ---- C18
\* C18: a request whose query names flywheel (with any value) is answered
\* 302 with a Location of the same path whose query holds the request's other
\* parameters with their values, and no flywheel, whatever the pong's status
\* and error; a request is proxied only when its query does not name
\* flywheel; SendPing is asked for a start exactly when the first flywheel
\* value is "start"; and when a start was asked for, the error page is not
\* what is written.
C18_DirectiveRedirects ==
  http.served =>
    LET query == Query(http.req.RawQuery)
        carries == \E i \in DOMAIN http.req.RawQuery : http.req.RawQuery[i][1] = "flywheel"
    IN /\ carries =>
            /\ http.resp.code = 302
            /\ http.resp.Location.Path = http.req.Path
            /\ Query(http.resp.Location.RawQuery) = Del(query, "flywheel")
            /\ \A i \in DOMAIN http.resp.Location.RawQuery :
                 http.resp.Location.RawQuery[i][1] # "flywheel"
       /\ http.resp.kind = "proxied" =>
            /\ ~carries
            /\ \A i \in DOMAIN http.resp.url.RawQuery :
                 http.resp.url.RawQuery[i][1] # "flywheel"
       /\ http.start <=>
            (carries /\ SelectSeq(http.req.RawQuery, LAMBDA p : p[1] = "flywheel")[1][2] = "start")
       /\ http.start => (http.resp.code = 302 /\ http.resp.kind # "error")

\* A start directive whose start failed while the authority is STOPPED has
\* been answered with the redirect, the other parameter kept.
C18_Witness ==
  /\ http.served /\ http.start
  /\ http.pong.Err # Nil /\ http.pong.Status = STOPPED
  /\ http.req.RawQuery = <<<<"z", "1">>, <<"flywheel", "start">>>>
  /\ http.resp.code = 302
  /\ http.resp.Location.RawQuery = <<<<"z", "1">>>>

\* ---- C19
\* C19: every step that invokes Start leaves lastStarted at the clock reading
\* the step began with, and every step that invokes Stop leaves lastStopped
\* there, whichever call fails, the first included.  A start ping whose
\* sequence fails was handled in STOPPED and its pong reports STOPPED, the
\* error, and LastStarted equal to that reading; a stop ping whose sequence
\* fails was handled in STARTED and its pong reports STARTED, the error, and
\* LastStopped equal to that reading; in both, ready and stopAt are as they
\* were before the attempt.
C19_AttemptStamped ==
  [][/\ last'.starts = 1 => fw'.lastStarted = now
     /\ last'.stops = 1 => fw'.lastStopped = now
     /\ (PingStep /\ last'.starts = 1 /\ last'.failAt > 0) =>
          /\ fw.status = STOPPED
          /\ SentPong.Status = STOPPED /\ SentPong.Err # Nil
          /\ SentPong.LastStarted = now
          /\ SentPong.StopAt = fw.stopAt
          /\ fw'.status = STOPPED
          /\ fw'.ready = fw.ready /\ fw'.stopAt = fw.stopAt
     /\ (PingStep /\ last'.stops = 1 /\ last'.failAt > 0) =>
          /\ fw.status = STARTED
          /\ SentPong.Status = STARTED /\ SentPong.Err # Nil
          /\ SentPong.LastStopped = now
          /\ SentPong.StopAt = fw.stopAt
          /\ fw'.status = STARTED
          /\ fw'.ready = fw.ready /\ fw'.stopAt = fw.stopAt]_vars

\* A start whose first call failed has been answered: the pong reports
\* STOPPED with the time of the attempt, which is later than the last stop
\* and earlier than the reply, and ready still holds.
C19_Witness ==
  /\ last.op = "ping" /\ last.from = STOPPED
  /\ last.starts = 1 /\ last.failAt = 1 /\ last.err # Nil
  /\ fw.status = STOPPED /\ fw.ready
  /\ replyTo[last.ping.replyTo].buf[1].Status = STOPPED
  /\ replyTo[last.ping.replyTo].buf[1].LastStarted = fw.lastStarted
  /\ fw.lastStarted > fw.lastStopped
  /\ fw.lastStarted < now

\* ---- C20
\* C20: a ping step or a tick step taken with the status UNHEALTHY leaves
\* status, stopAt and ready as they were, makes no API call and invokes
\* neither sequence, also when the clock is past stopAt; and a step that
\* takes the status from UNHEALTHY to another value is a health step whose
\* notified value is that other value.
C20_UnhealthyHolds ==
  [][fw.status = UNHEALTHY =>
       /\ (PingStep \/ TickStep) =>
            /\ fw'.status = UNHEALTHY
            /\ fw'.stopAt = fw.stopAt
            /\ fw'.ready = fw.ready
            /\ last'.starts = 0 /\ last'.stops = 0
            /\ last'.calls = <<>>
       /\ fw'.status # UNHEALTHY =>
            /\ HealthStep
            /\ last'.hval = fw'.status]_vars

\* A tick has been handled in UNHEALTHY with the clock past stopAt, and the
\* pool is still UNHEALTHY with nothing stopped.
C20_Witness ==
  /\ last.op = "tick" /\ last.from = UNHEALTHY
  /\ fw.status = UNHEALTHY
  /\ now > fw.stopAt + 1
  /\ fw.lastStopped < fw.lastStarted
  /\ last.stops = 0

====
